---------------------------- MODULE Spec2Model ----------------------------
(***************************************************************************)
(* A model of fsdk_uid (src/src/lib.rs): the FSUID bit layout, the         *)
(* FsdkUid decoding view and the FsdkUidGenerator that packs a millisecond *)
(* timestamp, a node identifier and an atomically incremented 8-bit        *)
(* counter into one i64.                                                   *)
(*                                                                         *)
(* 64-bit machine words are bit vectors (functions 0..63 -> {0,1}, bit 0   *)
(* the least significant), so that shifts, masks and the i64 sign bit      *)
(* behave as they do in the program.  u8 values are naturals 0..255.       *)
(***************************************************************************)
EXTENDS Integers, FiniteSets, Sequences, TLC

(***************************************************************************)
(* Machine words.                                                          *)
(***************************************************************************)
WordBits == 64
U8Bits == 8
U8Mod == 2 ^ U8Bits

BitIdx == 0 .. (WordBits - 1)

\* The word whose value is the natural n (n < 2^31).
WordOfNat(n) == [i \in BitIdx |-> IF i < 31 THEN (n \div (2 ^ i)) % 2 ELSE 0]

\* `x as i64` / `x as u64` of a u8 x: zero extension.
WordOfU8(x) == [i \in BitIdx |-> IF i < U8Bits THEN (x \div (2 ^ i)) % 2 ELSE 0]

\* `w as u8`: the low eight bits of w.
RECURSIVE LowBitsValue(_, _)
LowBitsValue(w, n) ==
    IF n = 0 THEN 0 ELSE w[n - 1] * (2 ^ (n - 1)) + LowBitsValue(w, n - 1)

U8OfWord(w) == LowBitsValue(w, U8Bits)

\* w << k (bits shifted out at the top are lost, as for Rust's << on i64/u64).
Shl(w, k) == [i \in BitIdx |-> IF i >= k THEN w[i - k] ELSE 0]

\* w >> k on an i64: arithmetic shift, the sign bit is replicated.
Sar(w, k) ==
    [i \in BitIdx |-> IF i + k <= WordBits - 1 THEN w[i + k] ELSE w[WordBits - 1]]

BitAnd(a, b) == [i \in BitIdx |-> IF a[i] = 1 /\ b[i] = 1 THEN 1 ELSE 0]
BitOr(a, b) == [i \in BitIdx |-> IF a[i] = 1 \/ b[i] = 1 THEN 1 ELSE 0]

\* w + 1 and w - 1 modulo 2^64.
Inc(w) ==
    [i \in BitIdx |-> IF \A j \in 0 .. (i - 1) : w[j] = 1 THEN 1 - w[i] ELSE w[i]]
Dec(w) ==
    [i \in BitIdx |-> IF \A j \in 0 .. (i - 1) : w[j] = 0 THEN 1 - w[i] ELSE w[i]]

ZeroWord == [i \in BitIdx |-> 0]

\* a < b, both read as unsigned 64-bit numbers.
LtU(a, b) ==
    \E i \in BitIdx :
        /\ a[i] = 0
        /\ b[i] = 1
        /\ \A j \in (i + 1) .. (WordBits - 1) : a[j] = b[j]

\* a < b, both read as i64 (two's complement).
LtS(a, b) ==
    IF a[WordBits - 1] # b[WordBits - 1]
    THEN a[WordBits - 1] = 1
    ELSE LtU(a, b)

IsNegative(w) == w[WordBits - 1] = 1

(***************************************************************************)
(* Constants of the bit layout (lib.rs lines 5-11).                        *)
(***************************************************************************)
FSDK_FSUID_TIMESTAMP_DELTA_BITS == 48
FSDK_FSUID_NODE_IDENTIFIER_BITS == 8
FSDK_FSUID_NODE_COUNTER_BITS == 8

\* (1 << 48) - 1 as u64
FSDK_FSUID_MAX_TIMESTAMP_DELTA ==
    Dec(Shl(WordOfNat(1), FSDK_FSUID_TIMESTAMP_DELTA_BITS))

\* (1 << (bits-1)) + ((1 << (bits-1)) - 1) as u8
FSDK_FSUID_MAX_NODE_IDENTIFIER ==
    (2 ^ (FSDK_FSUID_NODE_IDENTIFIER_BITS - 1))
        + ((2 ^ (FSDK_FSUID_NODE_IDENTIFIER_BITS - 1)) - 1)

FSDK_FSUID_MAX_NODE_COUNTER ==
    (2 ^ (FSDK_FSUID_NODE_COUNTER_BITS - 1))
        + ((2 ^ (FSDK_FSUID_NODE_COUNTER_BITS - 1)) - 1)

\* u8 arithmetic as the compiler evaluates it in a const: ok = FALSE is an
\* overflow (a shift by 8 or more, a sum above 255, a difference below 0),
\* which is a compile error.
u8_shl(a, k) == [ok |-> k < U8Bits, v |-> (a * (2 ^ k)) % U8Mod]
u8_add(a, b) == [ok |-> a + b < U8Mod, v |-> (a + b) % U8Mod]
u8_sub(a, b) == [ok |-> a >= b, v |-> (a + U8Mod - b) % U8Mod]

\* Mutant of MaxOfBits_u8: the maximum written as (1 << bits) - 1.
MaxOfBits_u8_direct(bits) ==
    LET p == u8_shl(1, bits)
        m == u8_sub(p.v, 1)
    IN  [ok |-> p.ok /\ m.ok, v |-> m.v]

\* Lines 10-11: (1 << (bits - 1)) + ((1 << (bits - 1)) - 1), every step in u8.
MaxOfBits_u8(bits) ==
    LET k == u8_sub(bits, 1)
        h == u8_shl(1, k.v)
        m == u8_sub(h.v, 1)
        r == u8_add(h.v, m.v)
    IN  [ok |-> k.ok /\ h.ok /\ m.ok /\ r.ok, v |-> r.v]

(***************************************************************************)
(* The packing done by generate_i64 (lib.rs lines 45-49) and the FsdkUid   *)
(* accessors (lib.rs lines 76-86).                                         *)
(***************************************************************************)
\* (millis & FSDK_FSUID_MAX_TIMESTAMP_DELTA) as i64
MaskTimestamp(millis) == BitAnd(millis, FSDK_FSUID_MAX_TIMESTAMP_DELTA)

\* Mutant of Pack: the node identifier is left out.
Pack_without_node(timestamp_delta, node_identifier, counter) ==
    BitOr(Shl(timestamp_delta,
              FSDK_FSUID_NODE_IDENTIFIER_BITS + FSDK_FSUID_NODE_COUNTER_BITS),
          WordOfU8(counter))

\* (timestamp_delta << (N + C)) | ((node_identifier as i64) << C) | (counter as i64)
Pack(timestamp_delta, node_identifier, counter) ==
    BitOr(BitOr(Shl(timestamp_delta,
                    FSDK_FSUID_NODE_IDENTIFIER_BITS + FSDK_FSUID_NODE_COUNTER_BITS),
                Shl(WordOfU8(node_identifier), FSDK_FSUID_NODE_COUNTER_BITS)),
          WordOfU8(counter))

\* Mutant of timestamp_delta: the mask is left out.
timestamp_delta_unmasked(fsuid) ==
    Sar(fsuid, FSDK_FSUID_NODE_IDENTIFIER_BITS + FSDK_FSUID_NODE_COUNTER_BITS)

\* (fsuid >> (N + C)) & MAX_TIMESTAMP_DELTA as i64
timestamp_delta(fsuid) ==
    BitAnd(Sar(fsuid, FSDK_FSUID_NODE_IDENTIFIER_BITS + FSDK_FSUID_NODE_COUNTER_BITS),
           FSDK_FSUID_MAX_TIMESTAMP_DELTA)

\* ((fsuid >> C) & MAX_NODE_IDENTIFIER as i64) as u8
node_identifier(fsuid) ==
    U8OfWord(BitAnd(Sar(fsuid, FSDK_FSUID_NODE_COUNTER_BITS),
                    WordOfU8(FSDK_FSUID_MAX_NODE_IDENTIFIER)))

\* (fsuid & MAX_NODE_COUNTER as i64) as u8
node_counter(fsuid) ==
    U8OfWord(BitAnd(fsuid, WordOfU8(FSDK_FSUID_MAX_NODE_COUNTER)))


(***************************************************************************)
(* Bounds of the model.                                                    *)
(***************************************************************************)
MaxAhead == 0        \* milliseconds an idle clock may run past its anchor
MaxBack == 2         \* milliseconds before its anchor at which the clock starts,
                     \* and the earliest instant it may be set back to
MaxCalls == 2        \* calls in Spec, all generators together
MaxCallsSeq == 258   \* calls of the single thread in SpecSeq
MaxCallsConc == 258  \* calls on the shared generator in SpecConc, SpecGen, SpecOrder
MaxEarly == 2        \* SpecConc: thread 2 calls only among the first MaxEarly
MaxCallsLive == 6    \* calls on the shared generator in SpecLive
MaxKeep == 2         \* identifiers remembered: counters within MaxKeep of a wrap

Threads == {1, 2}
Gens == {1, 2}

Panic == "panic"
NoGen == [state |-> "unconstructed", node_identifier |-> 0, counter |-> 0]

(***************************************************************************)
(* The system clock.  SystemTime::now() is an instant, written as a named  *)
(* anchor plus an offset in milliseconds: "epoch" is UNIX_EPOCH, "sign"    *)
(* is 2^47 ms after it (the first timestamp whose top bit is set) and      *)
(* "wrap" is 2^48 ms after it (the first timestamp the 48-bit mask         *)
(* truncates); "test" is 1726257270642 ms after it, the timestamp of the   *)
(* identifier decoded in test_fsdkuid_fields (1646287 * 2^20 + 233330).    *)
(***************************************************************************)
AnchorWord(a) ==
    CASE a = "epoch" -> ZeroWord
      [] a = "test" -> BitOr(Shl(WordOfNat(1646287), 20), WordOfNat(233330))
      [] a = "sign" -> Shl(WordOfNat(1), FSDK_FSUID_TIMESTAMP_DELTA_BITS - 1)
      [] a = "wrap" -> Shl(WordOfNat(1), FSDK_FSUID_TIMESTAMP_DELTA_BITS)

RECURSIVE AddOffset(_, _)
AddOffset(w, k) ==
    IF k = 0 THEN w
    ELSE IF k > 0 THEN AddOffset(Inc(w), k - 1)
    ELSE AddOffset(Dec(w), k + 1)

\* duration_since(UNIX_EPOCH) is Err exactly for an instant before the epoch.
BeforeEpoch(now) == now.anchor = "epoch" /\ now.off < 0

\* Mutant of the clock read: a time before the epoch reads as 0 (unwrap_or_default).
fsdkuid_get_current_unix_timestamp_milliseconds_or_zero(now) ==
    IF BeforeEpoch(now)
    THEN [ok |-> TRUE, ms |-> ZeroWord]
    ELSE [ok |-> TRUE, ms |-> AddOffset(AnchorWord(now.anchor), now.off)]

\* SystemTime::now().duration_since(UNIX_EPOCH).expect(..).as_millis() as u64
\* (ok = FALSE is the panic of expect(); ms is then meaningless).
fsdkuid_get_current_unix_timestamp_milliseconds(now) ==
    IF BeforeEpoch(now)
    THEN [ok |-> FALSE, ms |-> ZeroWord]
    ELSE [ok |-> TRUE, ms |-> AddOffset(AnchorWord(now.anchor), now.off)]

(***************************************************************************)
(* FsdkUidGenerator.                                                       *)
(***************************************************************************)
\* The u8 parameter of FsdkUidGenerator::new holds its argument modulo 2^8.
AsU8(n) == n % U8Mod

\* Mutant of new: the guard rejects the maximum itself (>= for >).
FsdkUidGenerator_new_strict(node_id) ==
    IF node_id >= FSDK_FSUID_MAX_NODE_IDENTIFIER
    THEN [state |-> Panic, node_identifier |-> 0, counter |-> 0]
    ELSE [state |-> "ok", node_identifier |-> node_id, counter |-> 0]

\* FsdkUidGenerator::new
FsdkUidGenerator_new(node_id) ==
    IF node_id > FSDK_FSUID_MAX_NODE_IDENTIFIER
    THEN [state |-> Panic, node_identifier |-> 0, counter |-> 0]
    ELSE [state |-> "ok", node_identifier |-> node_id, counter |-> 0]

\* Mutants of fetch_add: the store is lost; the counter counts down.
fetch_add_lost(old, val) == old
fetch_add_down(old, val) == (old + U8Mod - val) % U8Mod

\* AtomicU8::fetch_add(val): the value stored (the value returned is the old one).
fetch_add(old, val) == (old + val) % U8Mod

\* Mutant of SleepNeeded: the call is suspended on the last value before the wrap.
SleepNeeded_at_max(c) == c = FSDK_FSUID_MAX_NODE_COUNTER

\* Mutant of SleepNeeded: the call is never suspended.
SleepNeeded_never(c) == FALSE

\* Line 41: if counter == 0
SleepNeeded(c) == c = 0

\* Mutant of generate_i64: the value packed is the counter after the increment.
generate_i64_post(millis, node_id, counter) ==
    Pack(MaskTimestamp(millis), node_id, fetch_add(counter, 1))

\* The body of generate_i64 after the clock read.
generate_i64(millis, node_id, counter) ==
    Pack(MaskTimestamp(millis), node_id, counter)

VARIABLES
    clock,       \* the system time: [anchor, off]
    rewound,     \* ghost: the clock has been set back at least once
    gens,        \* generator -> [state, node_identifier, counter]
    newArg,      \* ghost: generator -> the integers its constructor was called with
    nfetch,      \* ghost: generator -> number of fetch_add executed on it
    pc,          \* thread -> "idle", "sleep", "read" or "panicked"
    self,        \* thread -> the generator of its current or last call
    counter,     \* thread -> the local `counter` (the pre-increment value)
    seq,         \* ghost: thread -> ordinal of its fetch_add on that generator
    slept,       \* thread -> a millisecond has passed since its sleep began
    ret,         \* thread -> <<v>>, v the i64 its last call returned; <<>> from call start
    kept,        \* ghost: <<v>>, one identifier remembered when returned, or <<>>
    keptAt,      \* ghost: [gen, ord]: the generator and fetch ordinal of kept
    overrun,     \* ghost: a call took counter 0 while another call was suspended
    cin,         \* codec check: the input fields [t, n, c]
    enc,         \* codec check: <<v>>, the packed i64, or <<>>
    dec,         \* codec check: <<[t, n, c]>>, the decoded fields, or <<>>
    raw,         \* decoding check: the i64 handed to FsdkUid::new
    uid,         \* decoding check: <<u>>, u the FsdkUid built from raw, or <<>>
    out          \* decoding check: <<[v, t, n, c]>>, what u's accessors returned, or <<>>

vars == <<clock, rewound, gens, newArg, nfetch, pc, self, counter, seq, slept,
          ret, kept, keptAt, overrun, cin, enc, dec, raw, uid, out>>

codecVars == <<cin, enc, dec, raw, uid, out>>
genVars == <<clock, rewound, gens, newArg, nfetch, pc, self, counter, seq, slept,
             ret, kept, keptAt, overrun>>

Constructed(g) == gens[g].state = "ok"


(***************************************************************************)
(* generate_i64, step by step.                                             *)
(***************************************************************************)
\* Mutant of FetchAdd: the increment waits while another call on the generator
\* is suspended (a lock held across the sleep).
FetchAdd_locked(t, g) ==
    /\ pc[t] = "idle"
    /\ Constructed(g)
    /\ \A u \in Threads \ {t} : ~(pc[u] = "sleep" /\ self[u] = g)
    /\ LET old == gens[g].counter IN
        /\ gens' = [gens EXCEPT ![g].counter = fetch_add(old, 1)]
        /\ counter' = [counter EXCEPT ![t] = old]
        /\ pc' = [pc EXCEPT ![t] = IF SleepNeeded(old) THEN "sleep" ELSE "read"]
        /\ overrun' = overrun
    /\ self' = [self EXCEPT ![t] = g]
    /\ nfetch' = [nfetch EXCEPT ![g] = @ + 1]
    /\ seq' = [seq EXCEPT ![t] = nfetch[g] + 1]
    /\ slept' = [slept EXCEPT ![t] = FALSE]
    /\ ret' = [ret EXCEPT ![t] = <<>>]
    /\ UNCHANGED <<clock, rewound, newArg, kept, keptAt>>
    /\ UNCHANGED codecVars

\* Line 39: let counter = self.counter.fetch_add(1, Ordering::SeqCst);
\* line 41 decides whether the call is suspended next.
FetchAdd(t, g) ==
    /\ pc[t] = "idle"
    /\ Constructed(g)
    /\ LET old == gens[g].counter IN
        /\ gens' = [gens EXCEPT ![g].counter = fetch_add(old, 1)]
        /\ counter' = [counter EXCEPT ![t] = old]
        /\ pc' = [pc EXCEPT ![t] = IF SleepNeeded(old) THEN "sleep" ELSE "read"]
        /\ overrun' = (overrun \/ (old = 0 /\ \E u \in Threads \ {t} :
                                                pc[u] = "sleep" /\ self[u] = g))
    /\ self' = [self EXCEPT ![t] = g]
    /\ nfetch' = [nfetch EXCEPT ![g] = @ + 1]
    /\ seq' = [seq EXCEPT ![t] = nfetch[g] + 1]
    /\ slept' = [slept EXCEPT ![t] = FALSE]
    /\ ret' = [ret EXCEPT ![t] = <<>>]
    /\ UNCHANGED <<clock, rewound, newArg, kept, keptAt>>
    /\ UNCHANGED codecVars

\* Mutant of Wake: the suspension never ends.
Wake_never(t) ==
    /\ pc[t] = "sleep"
    /\ slept[t]
    /\ UNCHANGED genVars
    /\ UNCHANGED codecVars

\* Mutant of Wake: the suspension ends before a millisecond has passed.
Wake_at_once(t) ==
    /\ pc[t] = "sleep"
    /\ pc' = [pc EXCEPT ![t] = "read"]
    /\ slept' = [slept EXCEPT ![t] = FALSE]
    /\ UNCHANGED <<clock, rewound, gens, newArg, nfetch, self, counter, seq, ret,
                   kept, keptAt, overrun>>
    /\ UNCHANGED codecVars

\* Line 42: std::thread::sleep(Duration::from_millis(1)) returns once at least
\* one millisecond has passed.
Wake(t) ==
    /\ pc[t] = "sleep"
    /\ slept[t]
    /\ pc' = [pc EXCEPT ![t] = "read"]
    /\ slept' = [slept EXCEPT ![t] = FALSE]
    /\ UNCHANGED <<clock, rewound, gens, newArg, nfetch, self, counter, seq, ret,
                   kept, keptAt, overrun>>
    /\ UNCHANGED codecVars

\* The identifiers the ghost `kept` may remember: those of the first lap of the
\* counter whose counter is within MaxKeep of the wrap.
Keepable(ord) ==
    /\ ord <= U8Mod
    /\ \/ ord - 1 < MaxKeep
       \/ ord - 1 > FSDK_FSUID_MAX_NODE_COUNTER - MaxKeep

\* Mutant of ReadClock: a call that panics gives its counter value back.
ReadClock_rollback(t, keep) ==
    /\ pc[t] = "read"
    /\ LET r == fsdkuid_get_current_unix_timestamp_milliseconds(clock)
           fsuid == generate_i64(r.ms, gens[self[t]].node_identifier, counter[t])
       IN  IF ~r.ok
           THEN /\ pc' = [pc EXCEPT ![t] = "panicked"]
                /\ gens' = [gens EXCEPT ![self[t]].counter = counter[t]]
                /\ UNCHANGED <<ret, kept, keptAt>>
           ELSE /\ pc' = [pc EXCEPT ![t] = "idle"]
                /\ ret' = [ret EXCEPT ![t] = <<fsuid>>]
                /\ UNCHANGED <<gens, kept, keptAt>>
    /\ UNCHANGED <<clock, rewound, newArg, nfetch, self, counter, seq, slept,
                   overrun>>
    /\ UNCHANGED codecVars

\* Lines 45-51: the clock read, which panics before the epoch, then the packing
\* and the return.  keep: the ghost remembers the value returned.
ReadClock(t, keep) ==
    /\ pc[t] = "read"
    /\ LET r == fsdkuid_get_current_unix_timestamp_milliseconds(clock)
           fsuid == generate_i64(r.ms, gens[self[t]].node_identifier, counter[t])
       IN  IF ~r.ok
           THEN /\ pc' = [pc EXCEPT ![t] = "panicked"]
                /\ UNCHANGED <<ret, kept, keptAt>>
           ELSE /\ pc' = [pc EXCEPT ![t] = "idle"]
                /\ ret' = [ret EXCEPT ![t] = <<fsuid>>]
                /\ IF keep /\ kept = <<>> /\ Keepable(seq[t])
                   THEN /\ kept' = <<fsuid>>
                        /\ keptAt' = [gen |-> self[t], ord |-> seq[t]]
                   ELSE UNCHANGED <<kept, keptAt>>
    /\ UNCHANGED <<clock, rewound, gens, newArg, nfetch, self, counter, seq, slept,
                   overrun>>
    /\ UNCHANGED codecVars

(***************************************************************************)
(* The environment: the system clock.                                      *)
(***************************************************************************)
Sleeping == {t \in Threads : pc[t] = "sleep" /\ ~slept[t]}

\* One millisecond passes.
Tick ==
    /\ clock.off < MaxAhead \/ Sleeping # {}
    /\ clock' = [clock EXCEPT !.off = @ + 1]
    /\ slept' = [t \in Threads |-> slept[t] \/ pc[t] = "sleep"]
    /\ UNCHANGED <<rewound, gens, newArg, nfetch, pc, self, counter, seq, ret,
                   kept, keptAt, overrun>>
    /\ UNCHANGED codecVars

\* The system time is set back by one millisecond (SystemTime is not monotonic).
Rewind ==
    /\ clock.off > -MaxBack
    /\ clock' = [clock EXCEPT !.off = @ - 1]
    /\ rewound' = TRUE
    /\ UNCHANGED <<gens, newArg, nfetch, pc, self, counter, seq, slept, ret,
                   kept, keptAt, overrun>>
    /\ UNCHANGED codecVars

(***************************************************************************)
(* Construction.                                                           *)
(***************************************************************************)
NewArgs == {1, FSDK_FSUID_MAX_NODE_IDENTIFIER, FSDK_FSUID_MAX_NODE_IDENTIFIER + 1}

\* FsdkUidGenerator::new(n as u8)
New(g, n) ==
    /\ gens[g].state = "unconstructed"
    /\ gens' = [gens EXCEPT ![g] = FsdkUidGenerator_new(AsU8(n))]
    /\ newArg' = [newArg EXCEPT ![g] = <<n>>]
    /\ UNCHANGED <<clock, rewound, nfetch, pc, self, counter, seq, slept, ret,
                   kept, keptAt, overrun>>
    /\ UNCHANGED codecVars

(***************************************************************************)
(* The codec on its own: pack three fields, read them back.                *)
(***************************************************************************)
Encode ==
    /\ enc = <<>>
    /\ enc' = <<Pack(cin.t, cin.n, cin.c)>>
    /\ UNCHANGED <<cin, dec, raw, uid, out>>
    /\ UNCHANGED genVars

Decode ==
    /\ enc # <<>>
    /\ dec = <<>>
    /\ dec' = <<[t |-> timestamp_delta(enc[1]),
                 n |-> node_identifier(enc[1]),
                 c |-> node_counter(enc[1])]>>
    /\ UNCHANGED <<cin, enc, raw, uid, out>>
    /\ UNCHANGED genVars

(***************************************************************************)
(* FsdkUid (lib.rs lines 67-86): the wrapper over any i64 and its readers. *)
(***************************************************************************)
\* Mutant of FsdkUid::new: the sign bit of the value is dropped.
FsdkUid_new_abs(fsuid) ==
    [fsuid |-> [i \in BitIdx |-> IF i = WordBits - 1 THEN 0 ELSE fsuid[i]]]

\* FsdkUid::new: FsdkUid { fsuid }
FsdkUid_new(fsuid) == [fsuid |-> fsuid]

\* FsdkUid::i64
i64(u) == u.fsuid

\* FsdkUid::new(raw)
NewUid ==
    /\ uid = <<>>
    /\ uid' = <<FsdkUid_new(raw)>>
    /\ UNCHANGED <<cin, enc, dec, raw, out>>
    /\ UNCHANGED genVars

\* i64(), timestamp_delta(), node_identifier() and node_counter() on the FsdkUid.
ReadUid ==
    /\ uid # <<>>
    /\ out = <<>>
    /\ out' = <<[v |-> i64(uid[1]),
                 t |-> timestamp_delta(uid[1].fsuid),
                 n |-> node_identifier(uid[1].fsuid),
                 c |-> node_counter(uid[1].fsuid)]>>
    /\ UNCHANGED <<cin, enc, dec, raw, uid>>
    /\ UNCHANGED genVars

(***************************************************************************)
(* Specifications.                                                         *)
(***************************************************************************)
\* The 48-bit timestamps tried: 2^k - 1 and 2^k for every k, and 0101..01.
TimestampSamples ==
    {[i \in BitIdx |-> IF i < k THEN 1 ELSE 0] : k \in 0 .. FSDK_FSUID_TIMESTAMP_DELTA_BITS}
    \cup {[i \in BitIdx |-> IF i = k THEN 1 ELSE 0] :
             k \in 0 .. (FSDK_FSUID_TIMESTAMP_DELTA_BITS - 1)}
    \cup {[i \in BitIdx |-> IF i < FSDK_FSUID_TIMESTAMP_DELTA_BITS /\ i % 2 = 0
                            THEN 1 ELSE 0]}

U8Samples == {0, 1, 2, 85, 127, 128, 170, 254, 255}

IdleGen ==
    /\ rewound = FALSE
    /\ newArg = [g \in Gens |-> <<>>]
    /\ nfetch = [g \in Gens |-> 0]
    /\ pc = [t \in Threads |-> "idle"]
    /\ self = [t \in Threads |-> 1]
    /\ counter = [t \in Threads |-> 0]
    /\ seq = [t \in Threads |-> 0]
    /\ slept = [t \in Threads |-> FALSE]
    /\ ret = [t \in Threads |-> <<>>]
    /\ kept = <<>>
    /\ keptAt = [gen |-> 0, ord |-> 0]
    /\ overrun = FALSE

IdleDecode ==
    /\ raw = ZeroWord
    /\ uid = <<>>
    /\ out = <<>>

IdleCodec ==
    /\ cin = [t |-> ZeroWord, n |-> 0, c |-> 0]
    /\ enc = <<>>
    /\ dec = <<>>
    /\ IdleDecode

\* Spec: two threads, two generators built by new, a clock that may be set back.
Init ==
    /\ IdleGen
    /\ IdleCodec
    /\ clock = [anchor |-> "epoch", off |-> -MaxBack]
    /\ gens = [g \in Gens |-> NoGen]

Next ==
    \/ \E g \in Gens, n \in NewArgs : New(g, n)
    \/ \E t \in Threads, g \in Gens :
          nfetch[1] + nfetch[2] < MaxCalls /\ FetchAdd(t, g)
    \/ \E t \in Threads : Wake(t)
    \/ \E t \in Threads, keep \in BOOLEAN : ReadClock(t, keep)
    \/ Tick
    \/ Rewind

Spec == Init /\ [][Next]_vars

\* SpecSeq: one thread calling one generator through more than a whole lap of
\* its counter.
InitSeq ==
    /\ IdleGen
    /\ IdleCodec
    /\ clock \in {[anchor |-> a, off |-> -MaxBack] : a \in {"sign", "wrap"}}
    /\ gens = [g \in Gens |-> IF g = 1 THEN FsdkUidGenerator_new(2) ELSE NoGen]

NextSeq ==
    \/ nfetch[1] < MaxCallsSeq /\ FetchAdd(1, 1)
    \/ Wake(1)
    \/ \E keep \in BOOLEAN : ReadClock(1, keep)
    \/ Tick
    \/ Rewind

SpecSeq == InitSeq /\ [][NextSeq]_vars

\* SpecConc: two threads sharing one generator through more than a whole lap of
\* its counter; thread 2 makes its calls among the first MaxEarly.
InitConc ==
    /\ IdleGen
    /\ IdleCodec
    /\ clock = [anchor |-> "test", off |-> -MaxBack]
    /\ gens = [g \in Gens |-> IF g = 1 THEN FsdkUidGenerator_new(2) ELSE NoGen]

NextConc ==
    \/ \E t \in Threads :
          /\ nfetch[1] < MaxCallsConc
          /\ t = 1 \/ nfetch[1] < MaxEarly
          /\ FetchAdd(t, 1)
    \/ \E t \in Threads : Wake(t)
    \/ \E t \in Threads : ReadClock(t, FALSE)
    \/ Tick

SpecConc == InitConc /\ [][NextConc]_vars

\* SpecLive: two threads calling one shared generator in any interleaving,
\* under fair scheduling: time passes, a sleep that has lasted its millisecond
\* ends, and a thread that is ready to run does run.
NextLive ==
    \/ \E t \in Threads : nfetch[1] < MaxCallsLive /\ FetchAdd(t, 1)
    \/ \E t \in Threads : Wake(t)
    \/ \E t \in Threads : ReadClock(t, FALSE)
    \/ Tick

SpecLive ==
    /\ InitConc
    /\ [][NextLive]_vars
    /\ WF_vars(Tick)
    /\ \A t \in Threads : WF_vars(Wake(t)) /\ WF_vars(ReadClock(t, FALSE))

\* SpecOrder: thread 1 calls one generator through a whole lap of its counter
\* and on, thread 2 joins once the counter is about to wrap; the clock never
\* goes backwards and stays far below 2^47.  Only identifiers returned to
\* thread 1 are remembered.
NextOrder ==
    \/ \E t \in Threads :
          /\ nfetch[1] < MaxCallsConc
          /\ t = 1 \/ nfetch[1] >= U8Mod
          /\ FetchAdd(t, 1)
    \/ \E t \in Threads : Wake(t)
    \/ \E keep \in BOOLEAN : ReadClock(1, keep)
    \/ ReadClock(2, FALSE)
    \/ Tick

SpecOrder == InitConc /\ [][NextOrder]_vars

\* SpecGen: a generator from its construction through more than a whole lap of
\* its counter, shared by two threads as in SpecConc, with a clock that starts
\* before the epoch or just below 2^48.
InitGen ==
    /\ IdleGen
    /\ IdleCodec
    /\ clock \in {[anchor |-> a, off |-> -MaxBack] : a \in {"epoch", "wrap"}}
    /\ gens = [g \in Gens |-> NoGen]

NextGen ==
    \/ \E n \in NewArgs : New(1, n)
    \/ \E t \in Threads :
          /\ nfetch[1] < MaxCallsConc
          /\ t = 1 \/ nfetch[1] < MaxEarly
          /\ FetchAdd(t, 1)
    \/ \E t \in Threads : Wake(t)
    \/ \E t \in Threads : ReadClock(t, FALSE)
    \/ Tick

SpecGen == InitGen /\ [][NextGen]_vars

\* SpecCodec: the packing and the accessors applied to chosen fields.
InitCodec ==
    /\ IdleGen
    /\ clock = [anchor |-> "epoch", off |-> 0]
    /\ gens = [g \in Gens |-> NoGen]
    /\ cin \in [t : TimestampSamples, n : U8Samples, c : U8Samples]
    /\ enc = <<>>
    /\ dec = <<>>
    /\ IdleDecode

NextCodec == Encode \/ Decode

SpecCodec == InitCodec /\ [][NextCodec]_vars

\* The i64 values decoded: every single bit, every run of low ones (0 and -1
\* included), every word with a single zero bit, and 1010..10 (negative).
WordSamples ==
    {[i \in BitIdx |-> IF i = k THEN 1 ELSE 0] : k \in BitIdx}
    \cup {[i \in BitIdx |-> IF i < k THEN 1 ELSE 0] : k \in 0 .. WordBits}
    \cup {[i \in BitIdx |-> IF i = k THEN 0 ELSE 1] : k \in BitIdx}
    \cup {[i \in BitIdx |-> i % 2]}

\* SpecDecode: an FsdkUid built from any i64 and read with every accessor.
InitDecode ==
    /\ IdleGen
    /\ clock = [anchor |-> "epoch", off |-> 0]
    /\ gens = [g \in Gens |-> NoGen]
    /\ cin = [t |-> ZeroWord, n |-> 0, c |-> 0]
    /\ enc = <<>>
    /\ dec = <<>>
    /\ raw \in WordSamples
    /\ uid = <<>>
    /\ out = <<>>

NextDecode == NewUid \/ ReadUid

SpecDecode == InitDecode /\ [][NextDecode]_vars


(***************************************************************************)
(* Properties.                                                             *)
(***************************************************************************)
Returned(t) == ret[t] # <<>>
InCall(t) == pc[t] \in {"sleep", "read"}
NodeOf(g) == gens[g].node_identifier

\* The clock is at or after the epoch and below 2^48 ms.
BelowWrap ==
    LET r == fsdkuid_get_current_unix_timestamp_milliseconds(clock)
    IN  r.ok /\ LtU(r.ms, AnchorWord("wrap"))

\* kept was returned by the call just before t's last call on the same generator.
KeptJustBefore(t) ==
    /\ kept # <<>>
    /\ Returned(t)
    /\ keptAt.gen = self[t]
    /\ keptAt.ord + 1 = seq[t]

\* C1: one thread calling generate_i64 repeatedly on one generator, with a clock
\* that never goes backwards and stays below 2^48, never gets the same value
\* twice: a value returned differs from every value returned by another call.
C1_NoRepeat ==
    \A t \in Threads :
        ( /\ Returned(t)
          /\ kept # <<>>
          /\ keptAt.gen = self[t]
          /\ keptAt.ord # seq[t]
          /\ ~rewound
          /\ BelowWrap )
        => ret[t][1] # kept[1]

\* C1's case: two calls a whole lap of the counter apart (same counter value).
C1_Witness ==
    \E t \in Threads :
        /\ Returned(t)
        /\ kept # <<>>
        /\ keptAt.gen = self[t]
        /\ keptAt.ord + U8Mod = seq[t]
        /\ node_counter(kept[1]) = node_counter(ret[t][1])
        /\ ~rewound
        /\ BelowWrap

\* C5 as stated: the values returned by successive calls of one thread on one
\* generator are strictly increasing as signed 64-bit integers.
C5_Original ==
    \A t \in Threads : KeptJustBefore(t) => LtS(kept[1], ret[t][1])

\* C5 amended: provided the clock never goes backwards and stays below 2^48,
\* successive values are strictly increasing as unsigned 64-bit integers (in
\* (timestamp_delta, counter) order, through every wraparound), and so as
\* signed integers whenever the two values have the same sign; when the clock
\* reaches 2^47 the signed value drops from positive to negative.
C5_Increasing ==
    \A t \in Threads :
        (KeptJustBefore(t) /\ ~rewound /\ BelowWrap)
        => /\ LtU(kept[1], ret[t][1])
           /\ IsNegative(kept[1]) = IsNegative(ret[t][1])
                  => LtS(kept[1], ret[t][1])
           /\ IsNegative(kept[1]) # IsNegative(ret[t][1])
                  => LtS(ret[t][1], kept[1])

\* C5's case: the call that wrapped the counter (255 then 0) returned.
C5_Witness ==
    \E t \in Threads :
        /\ KeptJustBefore(t)
        /\ ~rewound
        /\ BelowWrap
        /\ IsNegative(kept[1]) = IsNegative(ret[t][1])
        /\ node_counter(kept[1]) = FSDK_FSUID_MAX_NODE_COUNTER
        /\ node_counter(ret[t][1]) = 0

\* The parts of C9 that do not depend on the clock: the first 256 identifiers
\* carry counters 0..255, the 257th carries 0 and the 258th carries 1, and the
\* node identifier field is the generator's throughout.
C9_Counters(t) ==
    /\ seq[t] <= U8Mod => node_counter(ret[t][1]) = seq[t] - 1
    /\ seq[t] = U8Mod + 1 => node_counter(ret[t][1]) = 0
    /\ seq[t] = U8Mod + 2 => node_counter(ret[t][1]) = 1
    /\ node_identifier(ret[t][1]) = NodeOf(self[t])
    /\ kept # <<>> => node_identifier(kept[1]) = node_identifier(ret[t][1])

\* kept is one of the 256 identifiers before the wrap and t's last call is the 257th.
C9_AtWrap(t) ==
    /\ Returned(t)
    /\ kept # <<>>
    /\ keptAt.gen = self[t]
    /\ keptAt.ord <= U8Mod
    /\ seq[t] = U8Mod + 1

\* C9 as stated: after 256 calls on a fresh generator the 257th identifier has
\* counter 0 and a timestamp_delta strictly greater than that of every pre-wrap
\* identifier, the 258th has counter 1, and node_identifier is unchanged.
C9_Original ==
    \A t \in Threads :
        Returned(t) =>
            /\ C9_Counters(t)
            /\ C9_AtWrap(t) =>
                   LtS(timestamp_delta(kept[1]), timestamp_delta(ret[t][1]))

\* C9 amended: as stated, the timestamp_delta of the 257th being strictly
\* greater provided the clock never goes backwards and stays below 2^48.
C9_Wraparound ==
    \A t \in Threads :
        Returned(t) =>
            /\ C9_Counters(t)
            /\ (C9_AtWrap(t) /\ ~rewound /\ BelowWrap) =>
                   LtS(timestamp_delta(kept[1]), timestamp_delta(ret[t][1]))

\* C9's case: the 257th identifier was returned, the 256th is remembered.
C9_Witness ==
    \E t \in Threads :
        /\ C9_AtWrap(t)
        /\ keptAt.ord = U8Mod
        /\ ~rewound
        /\ BelowWrap


\* C2 as stated: as long as no 2^8 calls take a counter value during one
\* suspension, two calls on one shared generator never return identifiers with
\* the same (timestamp_delta, node_counter) pair.
C2_NoPairCollision ==
    ~overrun =>
        \A t, u \in Threads :
            (t # u /\ Returned(t) /\ Returned(u) /\ self[t] = self[u])
            => <<timestamp_delta(ret[t][1]), node_counter(ret[t][1])>>
                   # <<timestamp_delta(ret[u][1]), node_counter(ret[u][1])>>

\* C3 as stated: no two concurrent calls on one generator hold the same
\* pre-increment counter value.
C3_Original ==
    \A t, u \in Threads :
        (t # u /\ InCall(t) /\ InCall(u) /\ self[t] = self[u])
        => counter[t] # counter[u]

\* C3 amended: the k-th increment of a generator observes (k-1) mod 2^8, so two
\* concurrent calls hold the same pre-increment value only when their
\* increments are a multiple of 2^8 apart (the 8-bit counter has wrapped between
\* them); calls fewer than 2^8 increments apart never observe the same value.
C3_AtomicIncrement ==
    \A t, u \in Threads :
        (t # u /\ InCall(t) /\ InCall(u) /\ self[t] = self[u])
        => /\ counter[t] = (seq[t] - 1) % U8Mod
           /\ counter[t] = counter[u] => (seq[t] - seq[u]) % U8Mod = 0

\* C3's case: two calls in progress at once on the shared generator, one of
\* them a whole lap of the counter after the other.
C3_Witness ==
    \E t, u \in Threads :
        /\ t # u
        /\ InCall(t)
        /\ InCall(u)
        /\ self[t] = self[u]
        /\ counter[t] = counter[u]
        /\ seq[t] = seq[u] + U8Mod

\* C4: two generators constructed with different node identifiers never
\* return equal values, whatever clock and counter values their calls saw.
C4_NodesDiffer ==
    /\ \A t, u \in Threads :
           (Returned(t) /\ Returned(u) /\ NodeOf(self[t]) # NodeOf(self[u]))
           => ret[t][1] # ret[u][1]
    /\ \A t \in Threads :
           (Returned(t) /\ kept # <<>> /\ NodeOf(keptAt.gen) # NodeOf(self[t]))
           => ret[t][1] # kept[1]

\* C4's case: two generators with different node identifiers returned
\* identifiers carrying the same timestamp and the same counter.
C4_Witness ==
    \E t, u \in Threads :
        /\ Returned(t)
        /\ Returned(u)
        /\ NodeOf(self[t]) # NodeOf(self[u])
        /\ timestamp_delta(ret[t][1]) = timestamp_delta(ret[u][1])
        /\ node_counter(ret[t][1]) = node_counter(ret[u][1])

\* C6: reading a packed (t, n, c) back with timestamp_delta, node_identifier
\* and node_counter yields exactly (t, n, c), for every t <= 2^48 - 1 and
\* n, c <= 255, t with bit 47 set included.
C6_RoundTrip == dec # <<>> => dec[1] = cin

\* C6's case: a timestamp with bit 47 set and all-ones node and counter fields
\* has been packed and read back.
C6_Witness ==
    /\ dec # <<>>
    /\ cin.t[FSDK_FSUID_TIMESTAMP_DELTA_BITS - 1] = 1
    /\ cin.n = FSDK_FSUID_MAX_NODE_IDENTIFIER
    /\ cin.c = FSDK_FSUID_MAX_NODE_COUNTER
    /\ IsNegative(enc[1])

\* C7 as stated: every value returned by generate_i64 has its sign bit clear
\* (is >= 0), which is what field widths adding up to at most 63 would give.
\* The widths of lines 5-7 add up to 48 + 8 + 8 = 64.
C7_SignBitClear ==
    \A t \in Threads : Returned(t) => ~IsNegative(ret[t][1])

C10_ClockFailureAborts ==
    [][\A t \in Threads :
          /\ (pc[t] = "read" /\ pc'[t] # "read" /\ BeforeEpoch(clock))
                 => (pc'[t] = "panicked" /\ ret'[t] = <<>>)
          /\ pc[t] = "panicked" => (pc'[t] = "panicked" /\ ret'[t] = <<>>)]_vars

\* C10's case: a call has panicked on a clock before the epoch.
C10_Witness ==
    \E t \in Threads : pc[t] = "panicked" /\ ret[t] = <<>> /\ BeforeEpoch(clock)

\* The number held by the n bits of w from bit lo upwards.
RECURSIVE FieldValue(_, _, _)
FieldValue(w, lo, n) ==
    IF n = 0 THEN 0 ELSE w[lo] + 2 * FieldValue(w, lo + 1, n - 1)

\* C11: decoding is total and permissive: for every i64, negative ones
\* included, FsdkUid::new accepts it, i64() returns it unchanged, and the
\* accessors return the bit-fields of the input: timestamp_delta bits 16..63
\* (a value in 0..2^48-1), node_identifier bits 8..15 and node_counter bits
\* 0..7 (values in 0..255).
C11_DecodeTotal ==
    /\ uid # <<>> => i64(uid[1]) = raw
    /\ out # <<>> =>
          /\ out[1].v = raw
          /\ out[1].t =
                 [i \in BitIdx |->
                     IF i < FSDK_FSUID_TIMESTAMP_DELTA_BITS
                     THEN raw[i + FSDK_FSUID_NODE_IDENTIFIER_BITS
                                + FSDK_FSUID_NODE_COUNTER_BITS]
                     ELSE 0]
          /\ ~IsNegative(out[1].t)
          /\ LtU(out[1].t, AnchorWord("wrap"))
          /\ out[1].n = FieldValue(raw, FSDK_FSUID_NODE_COUNTER_BITS,
                                   FSDK_FSUID_NODE_IDENTIFIER_BITS)
          /\ out[1].c = FieldValue(raw, 0, FSDK_FSUID_NODE_COUNTER_BITS)
          /\ out[1].n \in 0 .. (U8Mod - 1)
          /\ out[1].c \in 0 .. (U8Mod - 1)

\* C11's case: the negative i64 -1 (every field all ones) has been wrapped and
\* read with every accessor.
C11_Witness ==
    /\ out # <<>>
    /\ IsNegative(raw)
    /\ out[1].v = raw
    /\ out[1].t = FSDK_FSUID_MAX_TIMESTAMP_DELTA
    /\ out[1].n = FSDK_FSUID_MAX_NODE_IDENTIFIER
    /\ out[1].c = FSDK_FSUID_MAX_NODE_COUNTER

\* The clock value a read at this instant yields (the clock not before the epoch).
ClockMillis == fsdkuid_get_current_unix_timestamp_milliseconds(clock).ms

\* Encode(m mod 2^48, node, c) bit by bit: c in bits 0..7, node in bits 8..15,
\* the low 48 bits of m in bits 16..63.
EncodeBits(m, node, c) ==
    [i \in BitIdx |->
        IF i < FSDK_FSUID_NODE_COUNTER_BITS
        THEN (c \div (2 ^ i)) % 2
        ELSE IF i < FSDK_FSUID_NODE_COUNTER_BITS + FSDK_FSUID_NODE_IDENTIFIER_BITS
        THEN (node \div (2 ^ (i - FSDK_FSUID_NODE_COUNTER_BITS))) % 2
        ELSE m[i - FSDK_FSUID_NODE_COUNTER_BITS - FSDK_FSUID_NODE_IDENTIFIER_BITS]]

\* C12: every value generate_i64 returns is Encode(m mod 2^48, node, c), m the
\* clock value the call read, node the identifier given to new and c the
\* pre-increment counter value the call observed: read back, its fields are
\* exactly the low 48 bits of m (a clock at or above 2^48 is truncated), node
\* and c, through every wraparound of the counter.
C12_ValueIsEncode ==
    [][\A t \in Threads :
          (pc[t] = "read" /\ pc'[t] = "idle") =>
              /\ ret'[t] = <<EncodeBits(ClockMillis, AsU8(newArg[self[t]][1]),
                                        (seq[t] - 1) % U8Mod)>>
              /\ counter[t] = (seq[t] - 1) % U8Mod
              /\ timestamp_delta(ret'[t][1]) =
                     [i \in BitIdx |-> IF i < FSDK_FSUID_TIMESTAMP_DELTA_BITS
                                       THEN ClockMillis[i] ELSE 0]
              /\ node_identifier(ret'[t][1]) = AsU8(newArg[self[t]][1])
              /\ node_counter(ret'[t][1]) = counter[t]]_vars

\* C12's case: the call that took counter 0 after the wrap, on the generator
\* of node 255, read a clock at or above 2^48 and returned a value whose
\* timestamp field is truncated (below 2^47) and whose other fields are whole.
C12_Witness ==
    \E t \in Threads :
        /\ Returned(t)
        /\ seq[t] = U8Mod + 1
        /\ clock.anchor = "wrap"
        /\ clock.off >= 0
        /\ NodeOf(self[t]) = FSDK_FSUID_MAX_NODE_IDENTIFIER
        /\ node_identifier(ret[t][1]) = FSDK_FSUID_MAX_NODE_IDENTIFIER
        /\ node_counter(ret[t][1]) = 0
        /\ ~IsNegative(ret[t][1])

\* C13: a generate_i64 call is suspended if and only if the pre-increment
\* counter value it observed is 0; the suspension comes right after its
\* increment, lasts at least a millisecond and ends before its clock read (no
\* value is returned from a suspended call); a call that observed a non-zero
\* value goes to its clock read without suspending.
C13_SleepIffZero ==
    [][\A t \in Threads :
          /\ (pc[t] = "idle" /\ pc'[t] # "idle") =>
                 /\ counter'[t] = gens[self'[t]].counter
                 /\ gens'[self'[t]].counter = (counter'[t] + 1) % U8Mod
                 /\ (pc'[t] = "sleep") <=> (counter'[t] = 0)
                 /\ (pc'[t] = "read") <=> (counter'[t] # 0)
                 /\ ret'[t] = <<>>
          /\ (pc'[t] = "sleep" /\ pc[t] # "sleep") => pc[t] = "idle"
          /\ (pc[t] = "sleep" /\ pc'[t] # "sleep") =>
                 /\ pc'[t] = "read"
                 /\ slept[t]
                 /\ ret'[t] = <<>>
                 /\ gens' = gens
          /\ (pc[t] = "read" /\ pc'[t] # "read") => pc'[t] \in {"idle", "panicked"}
          /\ (ret'[t] # ret[t] /\ ret'[t] # <<>>) => pc[t] = "read"]_vars

\* C13's case: the call right after the wrap (257th increment, counter 0) is
\* suspended while the other thread's call, which observed 1, is at its clock
\* read without having been suspended.
C13_Witness ==
    \E t, u \in Threads :
        /\ pc[t] = "sleep"
        /\ seq[t] = U8Mod + 1
        /\ counter[t] = 0
        /\ ret[t] = <<>>
        /\ pc[u] = "read"
        /\ counter[u] = 1

\* C14: the suspension blocks only the thread that observed counter 0: while
\* a call is suspended, another thread sharing the generator can do its next
\* step (increment the counter if it is idle, read the clock and return if it
\* is at its clock read, go on if its own sleep is over) without waiting.
C14_OnlyCallerBlocked ==
    \A t, u \in Threads :
        (t # u /\ pc[t] = "sleep" /\ Constructed(self[t])) =>
            /\ pc[u] = "idle" => ENABLED FetchAdd(u, self[t])
            /\ pc[u] = "read" => ENABLED ReadClock(u, FALSE)
            /\ (pc[u] = "sleep" /\ slept[u]) => ENABLED Wake(u)

\* C14's case: while one thread's call is still suspended, another thread has
\* made a later increment on the same generator and returned its identifier.
C14_Witness ==
    \E t, u \in Threads :
        /\ t # u
        /\ pc[t] = "sleep"
        /\ self[u] = self[t]
        /\ seq[u] > seq[t]
        /\ pc[u] = "idle"
        /\ Returned(u)
        /\ node_counter(ret[u][1]) = counter[t] + 1

\* C15: under fair scheduling and a clock at or after the epoch, every
\* generate_i64 call that has started returns an identifier, whatever the other
\* thread sharing the generator does.
C15_Terminates ==
    \A t \in Threads : InCall(t) ~> (pc[t] = "idle" /\ Returned(t))

\* C15's case: the call that was suspended (it observed counter 0) has returned
\* after the other thread made every later call, the last still in progress.
C15_Witness ==
    \E t, u \in Threads :
        /\ t # u
        /\ pc[t] = "idle"
        /\ Returned(t)
        /\ counter[t] = 0
        /\ seq[t] = 1
        /\ pc[u] = "read"
        /\ seq[u] = MaxCallsLive

\* C16 as stated: with threads sharing one generator, a clock that never goes
\* backwards and stays below 2^47, if a call A returned before a call B on the
\* same generator began, then A's value is strictly less than B's.  Here A is
\* the remembered call of thread 1 and B a later call of thread 1 (a thread's
\* call begins after its previous one returned); thread 2 is the other thread.
C16_RealTimeOrder ==
    ( /\ Returned(1)
      /\ kept # <<>>
      /\ keptAt.gen = self[1]
      /\ keptAt.ord < seq[1]
      /\ ~rewound
      /\ BelowWrap
      /\ ~IsNegative(kept[1])
      /\ ~IsNegative(ret[1][1]) )
    => LtS(kept[1], ret[1][1])

\* C17: a generator's counter is the number of increments done on it modulo
\* 2^8, from 0 at construction: the k-th increment observed (k-1) mod 2^8, a
\* call that panicked on the clock has still consumed its value (the counter is
\* not rolled back), and the node identifier stays the value given to new.
C17_CounterCountsIncrements ==
    /\ \A g \in Gens :
          Constructed(g) =>
              /\ gens[g].counter = nfetch[g] % U8Mod
              /\ gens[g].node_identifier = AsU8(newArg[g][1])
    /\ \A t \in Threads :
          seq[t] > 0 =>
              /\ counter[t] = (seq[t] - 1) % U8Mod
              /\ seq[t] <= nfetch[self[t]]

\* C17's case: the first call panicked on a clock before the epoch, and 256
\* later increments have brought the counter through a wrap to 1.
C17_Witness ==
    \E t \in Threads :
        /\ pc[t] = "panicked"
        /\ seq[t] = 1
        /\ nfetch[self[t]] = U8Mod + 1
        /\ gens[self[t]].counter = 1
        /\ gens[self[t]].node_identifier = FSDK_FSUID_MAX_NODE_IDENTIFIER

\* C18: the maximum-value constants of the node identifier and of the node
\* counter, 2^(bits-1) + (2^(bits-1) - 1) computed in u8 with bits = 8, are
\* 2^8 - 1 = 255 with no overflow on the way, and MAX_TIMESTAMP_DELTA is
\* 2^48 - 1 (bits 0..47 set); so a decoded field never exceeds its constant.
C18_MaxConstants ==
    /\ MaxOfBits_u8(FSDK_FSUID_NODE_IDENTIFIER_BITS) =
           [ok |-> TRUE, v |-> (2 ^ FSDK_FSUID_NODE_IDENTIFIER_BITS) - 1]
    /\ MaxOfBits_u8(FSDK_FSUID_NODE_COUNTER_BITS) =
           [ok |-> TRUE, v |-> (2 ^ FSDK_FSUID_NODE_COUNTER_BITS) - 1]
    /\ FSDK_FSUID_MAX_NODE_IDENTIFIER = MaxOfBits_u8(FSDK_FSUID_NODE_IDENTIFIER_BITS).v
    /\ FSDK_FSUID_MAX_NODE_COUNTER = MaxOfBits_u8(FSDK_FSUID_NODE_COUNTER_BITS).v
    /\ FSDK_FSUID_MAX_NODE_IDENTIFIER = U8Mod - 1
    /\ FSDK_FSUID_MAX_NODE_COUNTER = U8Mod - 1
    /\ FSDK_FSUID_MAX_TIMESTAMP_DELTA =
           [i \in BitIdx |-> IF i < FSDK_FSUID_TIMESTAMP_DELTA_BITS THEN 1 ELSE 0]
    /\ Inc(FSDK_FSUID_MAX_TIMESTAMP_DELTA) = AnchorWord("wrap")
    /\ dec # <<>> =>
          /\ dec[1].n <= MaxOfBits_u8(FSDK_FSUID_NODE_IDENTIFIER_BITS).v
          /\ dec[1].c <= MaxOfBits_u8(FSDK_FSUID_NODE_COUNTER_BITS).v
          /\ ~LtU(FSDK_FSUID_MAX_TIMESTAMP_DELTA, dec[1].t)

\* C18's case: fields equal to the three maxima have been packed and are read
\* back whole through the masks made of the constants.
C18_Witness ==
    /\ dec # <<>>
    /\ cin.t = FSDK_FSUID_MAX_TIMESTAMP_DELTA
    /\ dec[1].t = FSDK_FSUID_MAX_TIMESTAMP_DELTA
    /\ dec[1].n = MaxOfBits_u8(FSDK_FSUID_NODE_IDENTIFIER_BITS).v
    /\ dec[1].c = MaxOfBits_u8(FSDK_FSUID_NODE_COUNTER_BITS).v

=============================================================================
